---- MODULE Spec2Model ----
(***************************************************************************)
(* Model of the OpenML benchmark harness of genens                          *)
(* (genens/tests/run_openml.py): run_tests iterating the benchmark suite,   *)
(* _create_dir_check, run_task with its stopit Timeout around clf.fit,      *)
(* _log_evolution and the re-evaluation loop over the best pipelines.       *)
(*                                                                         *)
(* A path string is modelled as the sequence of its tokens: "/" is the      *)
(* separator, "." the current directory, anything else a name.  String      *)
(* concatenation (out_dir + dataset_dir) is \o on token sequences, and the  *)
(* operating system's path resolution is Resolve.                           *)
(***************************************************************************)
EXTENDS Integers, Sequences, FiniteSets, TLC

----------------------------------------------------------------------------
(* Bounds of the model *)

\* number of tasks in the benchmark suite
NumTasks == 3
\* number of consecutive invocations of run_tests on the same filesystem
MaxRuns == 2
\* largest deadline value and the number of clock ticks a fit is observed for
MaxTime == 2
\* largest number of pipelines get_best_pipelines may return
MaxK == 6

\* how far around each threshold the dataset shapes are taken
Spread == 1

\* run_task: clf.get_best_pipelines()[:5]
TopN == 5

\* Python's None, and a present optional value x
None == <<>>
Some(x) == <<x>>
Val(o) == o[1]

----------------------------------------------------------------------------
(* The environment: benchmark suite, datasets, working directory *)

\* benchmark_suite.tasks: the task identifiers in suite order
Suite == [i \in 1..NumTasks |-> i]

\* the dataset names of the catalog; tasks share them round-robin, so that
\* tasks 1 and 3 are defined on the same dataset
DatasetNames == <<"a", "b">>

\* task.get_dataset().name
DatasetName(t) == DatasetNames[((t - 1) % Len(DatasetNames)) + 1]

\* the process's working directory (absolute, as components)
Cwd == <<"home">>

\* the values of --out: '' (empty), '.', and the relative directory 'out'
OutDirs == { <<>>, <<".">>, <<"out">> }

\* the values of task_ids in the configuration: absent, or a list of ids
\* (one task, or all but one)
TaskIdChoices ==
    {None} \cup { Some({t}) : t \in 1..NumTasks }
           \cup { Some((1..NumTasks) \ {t}) : t \in 1..NumTasks }

\* the values of a deadline option: None or a number of clock ticks
Deadlines == {None} \cup { Some(d) : d \in 1..MaxTime }

\* the numbers of pipelines get_best_pipelines may return: none, one,
\* and from the five that are kept upwards
PipelineCounts == { n \in 0..MaxK : n <= 1 \/ n >= TopN }

\* the values of the option timeout: None or one clock tick
Timeouts == {None, Some(1)}

----------------------------------------------------------------------------
(* Paths and the filesystem *)

IsName(tok) == tok \notin {"/", "."}

\* the directory components a path string denotes
Comps(p) == SelectSeq(p, IsName)

\* path resolution: absolute when the string starts with "/", else
\* relative to the working directory
Resolve(p) == IF p # <<>> /\ p[1] = "/" THEN Comps(p) ELSE Cwd \o Comps(p)

Parent(a) == SubSeq(a, 1, Len(a) - 1)

\* mutant of DatasetDir: the directory is named after the task
DatasetDirOfTask(t) == <<"/", "task" \o ToString(t)>>

\* '/{}'.format(dataset.name)
DatasetDir(t) == <<"/", DatasetName(t)>>

\* out_dir + '/name'
Join(dir, name) == dir \o <<"/", name>>

\* '/run{}'.format(i), '/graph{}.png'.format(i), '/pipeline{}.pickle'.format(i)
RunName(i) == "run" \o ToString(i)
GraphName(i) == "graph" \o ToString(i) \o ".png"
PickleName(i) == "pipeline" \o ToString(i) \o ".pickle"

Min(x, y) == IF x <= y THEN x ELSE y

----------------------------------------------------------------------------
(* State *)

VARIABLES
    task_ids,       \* run_tests argument: None or the set of selected ids
    out_dir,        \* run_tests argument: the output root (path string)
    timeout,        \* run_tests argument: forwarded to evaluator and classifier
    task_timeout,   \* run_tests argument: deadline of the Timeout block
    dirs,           \* filesystem: the existing directories (absolute)
    files,          \* filesystem: the existing regular files (absolute)
    run,            \* number of the current invocation of run_tests
    prev,           \* how the previous invocation ended: none/returned/raised
    pc,             \* position of the interpreter in run_tests / run_task
    idx,            \* position of the for loop in benchmark_suite.tasks
    dataset_dir,    \* run_tests local: the string given to _create_dir_check
    rt_out_dir,     \* run_task parameter out_dir
    clf_timeout,    \* the timeout the classifier was constructed with
    fit_kind,       \* what the running fit does: returns, raises or hangs
    elapsed,        \* clock ticks since start_time
    outcome,        \* outcome of the bounded fit of the current task
    k,              \* number of pipelines get_best_pipelines returns
    ri,             \* index of the re-evaluation loop
    exc,            \* the exception that left run_tests, "none" if none
    events,         \* what this invocation did, see Log
    n_rows,         \* _heuristic_sample_size argument
    n_cols,         \* _heuristic_sample_size argument
    sample_size,    \* its result, in hundredths: Some(50) is 0.5; None before
    prev_call,      \* the call before: Some(<<n_rows, n_cols, result>>)
    categorical,    \* _conditional_imput argument: the categorical mask
    imputer,        \* its result: the transformers of the ColumnTransformer
    logbook,        \* export_plot argument: estimator.logbook
    lines           \* its result: the labels of the series drawn

vars == <<task_ids, out_dir, timeout, task_timeout, dirs, files, run, prev, pc,
          idx, dataset_dir, rt_out_dir, clf_timeout, fit_kind, elapsed,
          outcome, k, ri, exc, events, n_rows, n_cols, sample_size, prev_call,
          categorical, imputer, logbook, lines>>

\* the data the helper functions work on; the model of the harness
\* abstracts from it
sizing == <<n_rows, n_cols, sample_size, prev_call>>
imputing == <<categorical, imputer>>
plotting == <<logbook, lines>>
data == <<sizing, imputing, plotting>>

args == <<task_ids, out_dir, timeout, task_timeout>>
fs == <<dirs, files>>
harness == <<task_ids, out_dir, timeout, task_timeout, dirs, files, run, prev, pc,
             idx, dataset_dir, rt_out_dir, clf_timeout, fit_kind, elapsed,
             outcome, k, ri, exc, events>>
taskvars == <<dataset_dir, rt_out_dir, clf_timeout, fit_kind, elapsed, outcome, k, ri>>

\* directories and files a previous use of the machine may have left under
\* the output root 'out': out/a with a re-evaluation directory run0
LeftoverDirs == { Cwd \o <<"out", "a">>, Cwd \o <<"out", "a", RunName(0)>> }
LeftoverFiles == { Cwd \o <<"out", "a", RunName(0), "accuracy-score.txt">> }

BaseDirs == { <<>>, Cwd, Cwd \o <<"out">> }

\* no helper function has been called
NoSizing == n_rows = 0 /\ n_cols = 0 /\ sample_size = None /\ prev_call = None
NoImputing == categorical = <<>> /\ imputer = None
NoPlotting == logbook = <<>> /\ lines = None

Init ==
    /\ NoSizing
    /\ NoImputing
    /\ NoPlotting
    /\ task_ids \in TaskIdChoices
    /\ out_dir \in OutDirs
    /\ timeout \in Timeouts
    /\ task_timeout \in Deadlines
    /\ \E left \in BOOLEAN :
          /\ left => out_dir = <<"out">>
          /\ dirs = IF left THEN BaseDirs \cup LeftoverDirs ELSE BaseDirs
          /\ files = IF left THEN LeftoverFiles ELSE {}
    /\ run = 1
    /\ prev = "none"
    /\ pc = "loop"
    /\ idx = 1
    /\ dataset_dir = <<>>
    /\ rt_out_dir = <<>>
    /\ clf_timeout = None
    /\ fit_kind = "none"
    /\ elapsed = 0
    /\ outcome = "none"
    /\ k = 0
    /\ ri = 0
    /\ exc = "none"
    /\ events = {}

\* the task the for loop is at
Task == Suite[idx]

\* events are <<kind, task id, name, candidate>>; the candidate is -1
\* where the event is about no candidate
LogC(kind, name, cand) == events \cup { <<kind, Task, name, cand>> }
Log(kind, name) == LogC(kind, name, -1)

----------------------------------------------------------------------------
(* run_tests *)

\* mutant of Selected: the filter on task_ids is left out
SelectedNoFilter(id) == TRUE

\* the negation of the loop's filter `task_ids is not None and
\* task_id not in task_ids`
Selected(id) == IF task_ids = None THEN TRUE ELSE id \in Val(task_ids)

\* mutant of Mkdir: an existing directory is accepted (exist_ok)
MkdirExistOk(p) ==
    IF Parent(Resolve(p)) \notin dirs THEN {"OSError"} ELSE {"ok", "OSError"}

\* os.mkdir(p): the errors it can end with, "ok" when it creates p.  Apart
\* from the two the filesystem decides, the operating system may refuse
\* (permissions, a full or read-only disk).
Mkdir(p) ==
    IF Resolve(p) \in dirs \/ Resolve(p) \in files THEN {"FileExistsError"}
    ELSE IF Parent(Resolve(p)) \notin dirs THEN {"OSError"}
    ELSE {"ok", "OSError"}

\* open(p, 'w+') and its kin: whether the file can be created or truncated
CanWrite(p) == Parent(Resolve(p)) \in dirs /\ Resolve(p) \notin dirs

\* the exception e is caught nowhere and leaves run_tests
Raise(e) ==
    /\ pc' = "raised"
    /\ exc' = e
    /\ UNCHANGED <<args, run, prev, idx>>

\* `continue`, or the return of run_task: the loop takes the next task
NextTask ==
    /\ pc' = "loop"
    /\ idx' = idx + 1
    /\ UNCHANGED <<args, run, prev, exc>>

\* for task_id in benchmark_suite.tasks: an id outside task_ids is skipped
SkipOther ==
    /\ pc = "loop"
    /\ idx <= Len(Suite)
    /\ ~Selected(Task)
    /\ NextTask
    /\ UNCHANGED <<fs, taskvars, events>>
    /\ UNCHANGED data

\* openml.tasks.get_task(task_id); task.get_dataset(); the name of the
\* directory.  Either call may raise.
FetchTask ==
    /\ pc = "loop"
    /\ idx <= Len(Suite)
    /\ Selected(Task)
    /\ \E r \in {"ok", "task_error", "dataset_error"} :
          /\ events' = IF r = "task_error" THEN Log("get_task", "")
                       ELSE Log("get_task", "") \cup Log("get_dataset", "")
          /\ IF r = "ok"
             THEN /\ dataset_dir' = DatasetDir(Task)
                  /\ pc' = "check"
                  /\ UNCHANGED <<args, run, prev, idx, exc>>
             ELSE /\ Raise("OpenMLServerException")
                  /\ UNCHANGED dataset_dir
    /\ UNCHANGED <<fs, rt_out_dir, clf_timeout, fit_kind, elapsed, outcome, k, ri>>
    /\ UNCHANGED data

\* the out_dir run_tests hands to run_task
TaskOutDir == out_dir \o dataset_dir

\* if not _create_dir_check(dataset_dir): continue; else run_task(...)
CreateDirCheck ==
    /\ pc = "check"
    /\ \E r \in Mkdir(dataset_dir) :
          /\ events' = IF r = "ok" THEN Log("dir_check", "") \cup Log("run_task", "")
                       ELSE Log("dir_check", "")
          /\ CASE r = "ok" ->
                    /\ dirs' = dirs \cup {Resolve(dataset_dir)}
                    /\ rt_out_dir' = TaskOutDir
                    /\ pc' = "Loading"
                    /\ outcome' = "none"
                    /\ UNCHANGED <<args, run, prev, idx, exc>>
               [] r = "FileExistsError" ->
                    /\ NextTask
                    /\ UNCHANGED <<dirs, rt_out_dir, outcome>>
               [] OTHER ->
                    /\ Raise(r)
                    /\ UNCHANGED <<dirs, rt_out_dir, outcome>>
    /\ UNCHANGED <<files, dataset_dir, clf_timeout, fit_kind, elapsed, k, ri>>
    /\ UNCHANGED data

\* the for loop is exhausted: run_tests returns
Return ==
    /\ pc = "loop"
    /\ idx > Len(Suite)
    /\ pc' = "returned"
    /\ UNCHANGED <<args, fs, run, prev, idx, taskvars, exc, events>>
    /\ UNCHANGED data

\* run_tests is invoked again with the same arguments on the filesystem
\* the previous invocation left
Invoke ==
    /\ pc \in {"returned", "raised"}
    /\ run < MaxRuns
    /\ run' = run + 1
    /\ prev' = pc
    /\ pc' = "loop"
    /\ idx' = 1
    /\ events' = {}
    /\ dataset_dir' = <<>>
    /\ rt_out_dir' = <<>>
    /\ clf_timeout' = None
    /\ fit_kind' = "none"
    /\ elapsed' = 0
    /\ outcome' = "none"
    /\ k' = 0
    /\ ri' = 0
    /\ exc' = "none"
    /\ UNCHANGED <<args, fs>>
    /\ UNCHANGED data

----------------------------------------------------------------------------
(* run_task *)

\* an exception leaves run_task and, uncaught in run_tests, run_tests
RaiseInTask(e) ==
    /\ Raise(e)
    /\ UNCHANGED <<fs, dataset_dir, rt_out_dir, clf_timeout, fit_kind, elapsed,
                   outcome, k, ri>>

\* dataset = task.get_dataset(); X, y, categorical = dataset.get_data(...)
Loading ==
    /\ pc = "Loading"
    /\ \E ok \in BOOLEAN :
          IF ok
          THEN /\ pc' = "Imputing"
               /\ events' = Log("get_data", "")
               /\ UNCHANGED <<args, fs, run, prev, idx, taskvars, exc>>
          ELSE /\ RaiseInTask("OpenMLServerException")
               /\ events' = Log("error", "Loading")
    /\ UNCHANGED data

\* imputer = _conditional_imput(X, categorical); X = imputer.fit_transform(X)
Imputing ==
    /\ pc = "Imputing"
    /\ \E ok \in BOOLEAN :
          IF ok
          THEN /\ pc' = "Sizing"
               /\ events' = Log("impute", "")
               /\ UNCHANGED <<args, fs, run, prev, idx, taskvars, exc>>
          ELSE /\ RaiseInTask("ValueError")
               /\ events' = Log("error", "Imputing")
    /\ UNCHANGED data

\* sample_size, evaluator = SampleCrossValEvaluator(timeout_s=timeout, ...),
\* clf = GenensClassifier(timeout=timeout, ...); a constructor may raise
Sizing ==
    /\ pc = "Sizing"
    /\ \E ok \in BOOLEAN :
          IF ok
          THEN /\ clf_timeout' = timeout
               /\ pc' = "BoundedFitting"
               /\ events' = Log("size", "")
               /\ UNCHANGED <<args, fs, run, prev, idx, dataset_dir, rt_out_dir,
                              fit_kind, elapsed, outcome, k, ri, exc>>
          ELSE /\ RaiseInTask("ValueError")
               /\ events' = Log("error", "Sizing")
    /\ UNCHANGED data

\* mutant of FitDeadline: the Timeout block is given the option timeout
FitDeadlineIsTimeout == timeout

\* the deadline given to stopit's Timeout
FitDeadline == task_timeout

\* start_time = time.time(); with Timeout(...): clf.fit(X, y) is entered.
\* What the Evolver's fit does on this input is not the harness's choice.
StartFit ==
    /\ pc = "BoundedFitting"
    /\ pc' = "fit"
    /\ elapsed' = 0
    /\ fit_kind' \in {"returns", "raises", "hangs"}
    /\ events' = Log("fit", "")
    /\ UNCHANGED <<args, fs, run, prev, idx, dataset_dir, rt_out_dir, clf_timeout,
                   outcome, k, ri, exc>>
    /\ UNCHANGED data

\* the positions of run_task after start_time was taken
Timed == {"fit", "Recording", "logbook", "plot", "fitness", "pickle", "ReEvaluating"}

\* the wall clock advances while the task is being processed; it is
\* observed up to MaxTime during the fit, and after the fit up to the
\* deadline of the Timeout block
Tick ==
    /\ pc \in Timed
    /\ elapsed < MaxTime
    /\ pc # "fit" => (task_timeout # None /\ elapsed < Val(task_timeout))
    /\ elapsed' = elapsed + 1
    /\ UNCHANGED <<args, fs, run, prev, pc, idx, dataset_dir, rt_out_dir,
                   clf_timeout, fit_kind, outcome, k, ri, exc, events>>
    /\ UNCHANGED data

\* mutant of Expired: the timer fires without waiting for the deadline
ExpiredAtOnce == FitDeadline # None

\* the deadline of the Timeout block has passed
Expired == FitDeadline # None /\ elapsed >= Val(FitDeadline)

\* mutant of InTimeoutBlock: the timer is not cancelled when the with
\* block is left
InTimeoutBlockWide == pc \in Timed

\* the statements inside `with Timeout(task_timeout, swallow_exc=False):`
InTimeoutBlock == pc = "fit"

\* clf.fit returns before the timer interrupts it: the with block is left,
\* elapsed_time is taken.  Once the deadline has passed while the fit is
\* still running, the return and the interruption race.
FitReturn ==
    /\ pc = "fit"
    /\ fit_kind = "returns"
    /\ outcome' = "Completed"
    /\ k' \in PipelineCounts
    /\ pc' = "Recording"
    /\ events' = Log("completed", "")
    /\ UNCHANGED <<args, fs, run, prev, idx, dataset_dir, rt_out_dir, clf_timeout,
                   fit_kind, elapsed, ri, exc>>
    /\ UNCHANGED data

\* mutant of Catches: `except Exception:`
CatchesAll(e) == TRUE

\* `except TimeoutException:` whether the clause matches exception e
Catches(e) == e = "TimeoutException"

\* mutant of AfterTimeout: the handler does not return, run_task goes on
\* after the try statement
AfterTimeoutFallsThrough == "Recording"

\* where `print('Timeout - ...'); return` leaves run_task: back in the
\* loop of run_tests, at the next task
AfterTimeout == "loop"

\* the exception e is raised inside the with block.  Timeout's __exit__
\* lets it through (swallow_exc=False, and it swallows nothing but its
\* own TimeoutException anyway); the except clause decides.
RaisedInBlock(e, result) ==
    /\ outcome' = result
    /\ IF Catches(e)
       THEN /\ events' = Log("timeout", "")
            /\ pc' = AfterTimeout
            /\ idx' = IF AfterTimeout = "loop" THEN idx + 1 ELSE idx
            /\ UNCHANGED <<args, run, prev, exc>>
       ELSE /\ events' = Log("error", "fit")
            /\ Raise(e)
    /\ UNCHANGED <<fs, dataset_dir, rt_out_dir, clf_timeout, fit_kind, elapsed, k, ri>>

\* clf.fit raises an exception of its own
FitRaise ==
    /\ pc = "fit"
    /\ fit_kind = "raises"
    /\ RaisedInBlock("FitError", "Failed")
    /\ UNCHANGED data

\* the timer expires inside the with block: stopit raises
\* TimeoutException in the thread running the block
FitTimeout ==
    /\ InTimeoutBlock
    /\ Expired
    /\ RaisedInBlock("TimeoutException", "TimedOut")
    /\ UNCHANGED data

\* a step of run_task after the fit that writes the files `names` into
\* out_dir and goes on at `next`; opening a file fails when its directory
\* does not exist, and the library called may fail (`ok`)
WriteStep(names, next, ok, evs) ==
    IF ok /\ \A n \in names : CanWrite(Join(rt_out_dir, n))
    THEN /\ files' = files \cup { Resolve(Join(rt_out_dir, n)) : n \in names }
         /\ events' = evs
         /\ pc' = next
         /\ UNCHANGED <<args, dirs, run, prev, idx, taskvars, exc>>
    ELSE /\ RaiseInTask(IF ok THEN "FileNotFoundError" ELSE "LibraryError")
         /\ events' = Log("error", pc)

\* elapsed_time = ...; with open(out_dir + '/time.txt', 'w+')
RecordTime ==
    /\ pc = "Recording"
    /\ WriteStep({"time.txt"}, "logbook", TRUE, Log("write", "time.txt"))
    /\ UNCHANGED data

\* _log_evolution: with open(out_dir + '/logbook.txt', 'w+')
LogLogbook ==
    /\ pc = "logbook"
    /\ WriteStep({"logbook.txt"}, "plot", TRUE, Log("write", "logbook.txt"))
    /\ UNCHANGED data

\* _log_evolution: export_plot(fitted_clf, out_dir + '/result.png')
LogPlot ==
    /\ pc = "plot"
    /\ \E ok \in BOOLEAN :
          WriteStep({"result.png"}, "fitness", ok, Log("write", "result.png"))
    /\ UNCHANGED data

\* fitted_clf.get_best_pipelines(): the candidates in rank order, each
\* identified by its rank
BestPipelines == [i \in 1..k |-> i - 1]

\* mutant of Top: the list is not cut
TopAll(seq) == seq

\* seq[:5]
Top(seq) == SubSeq(seq, 1, Min(TopN, Len(seq)))

\* enumerate(seq): the pairs <<i, element>>, i from 0
Enumerate(seq) == { <<i - 1, seq[i]>> : i \in 1..Len(seq) }

\* _log_evolution: ind-fitness.txt with a line per individual of
\* get_best_pipelines(as_individuals=True)[:5], and create_graph for each
LogFitness ==
    /\ pc = "fitness"
    /\ \E ok \in BOOLEAN :
          WriteStep({"ind-fitness.txt"} \cup { GraphName(e[1]) : e \in Enumerate(Top(BestPipelines)) },
                    "pickle", ok,
                    events \cup { <<"write", Task, "ind-fitness.txt", -1>> }
                           \cup { <<"line", Task, "ind-fitness.txt", e[2]>> : e \in Enumerate(Top(BestPipelines)) }
                           \cup { <<"write", Task, GraphName(e[1]), e[2]>> : e \in Enumerate(Top(BestPipelines)) })
    /\ UNCHANGED data

\* _log_evolution: pickle.dump of each of get_best_pipelines()[:5]
LogPickle ==
    /\ pc = "pickle"
    /\ ri' = 0
    /\ \E ok \in BOOLEAN :
          IF ok /\ \A e \in Enumerate(Top(BestPipelines)) : CanWrite(Join(rt_out_dir, PickleName(e[1])))
          THEN /\ files' = files \cup { Resolve(Join(rt_out_dir, PickleName(e[1]))) : e \in Enumerate(Top(BestPipelines)) }
               /\ events' = events \cup { <<"write", Task, PickleName(e[1]), e[2]>> : e \in Enumerate(Top(BestPipelines)) }
               /\ pc' = "ReEvaluating"
               /\ UNCHANGED <<args, dirs, run, prev, idx, dataset_dir, rt_out_dir,
                              clf_timeout, fit_kind, elapsed, outcome, k, exc>>
          ELSE /\ Raise(IF ok THEN "FileNotFoundError" ELSE "LibraryError")
               /\ events' = Log("error", "pickle")
               /\ UNCHANGED <<fs, dataset_dir, rt_out_dir, clf_timeout, fit_kind,
                              elapsed, outcome, k>>
    /\ UNCHANGED data

\* pipe_dir = out_dir + '/run{}'.format(i)
PipeDir(i) == Join(rt_out_dir, RunName(i))

\* the files evaluate_pipeline leaves in out_dir: run.to_filesystem and
\* accuracy-score.txt
RunFiles(dir) == { Resolve(Join(dir, "description.xml")),
                   Resolve(Join(dir, "accuracy-score.txt")) }

\* whether run_task goes on to evaluate_pipeline after
\* _create_dir_check(pipe_dir) ended with r: its return value is not used,
\* only a re-raised OSError stops the iteration
Evaluates(r) == r \in {"ok", "FileExistsError"}

\* one iteration of `for i, pipe in enumerate(clf.get_best_pipelines()[:5])`:
\* _create_dir_check(pipe_dir); evaluate_pipeline(pipe, task, pipe_dir, ...)
ReEvaluate ==
    /\ pc = "ReEvaluating"
    /\ ri < Len(Top(BestPipelines))
    /\ LET pipe == Top(BestPipelines)[ri + 1]
           pipe_dir == PipeDir(ri)
       IN \E r \in Mkdir(pipe_dir) :
            LET checked == LogC(IF r = "FileExistsError" THEN "collision"
                                ELSE IF r = "ok" THEN "mkdir" ELSE "error",
                                RunName(ri), pipe)
                made == IF r = "ok" THEN dirs \cup {Resolve(pipe_dir)} ELSE dirs
            IN IF Evaluates(r)
               THEN \E e \in {"ok", "error"} :
                      /\ dirs' = made
                      /\ events' = checked \cup { <<"evaluate", Task, RunName(ri), pipe>> }
                      /\ IF e = "ok"
                         THEN /\ files' = files \cup RunFiles(pipe_dir)
                              /\ ri' = ri + 1
                              /\ UNCHANGED <<args, run, prev, pc, idx, exc>>
                         ELSE /\ Raise("LibraryError")
                              /\ UNCHANGED <<files, ri>>
               ELSE /\ dirs' = made
                    /\ events' = checked
                    /\ UNCHANGED files
                    /\ IF r = "OSError"
                       THEN /\ Raise(r)
                            /\ UNCHANGED ri
                       ELSE /\ ri' = ri + 1
                            /\ UNCHANGED <<args, run, prev, pc, idx, exc>>
    /\ UNCHANGED <<dataset_dir, rt_out_dir, clf_timeout, fit_kind, elapsed, outcome, k>>
    /\ UNCHANGED data

\* the loop over the best pipelines is exhausted: run_task returns
EndReEvaluate ==
    /\ pc = "ReEvaluating"
    /\ ri >= Len(Top(BestPipelines))
    /\ NextTask
    /\ UNCHANGED <<fs, taskvars, events>>
    /\ UNCHANGED data

----------------------------------------------------------------------------
(* Specifications *)

Next ==
    \/ SkipOther
    \/ FetchTask
    \/ CreateDirCheck
    \/ Return
    \/ Invoke
    \/ Loading
    \/ Imputing
    \/ Sizing
    \/ StartFit
    \/ Tick
    \/ FitReturn
    \/ FitRaise
    \/ FitTimeout
    \/ RecordTime
    \/ LogLogbook
    \/ LogPlot
    \/ LogFitness
    \/ LogPickle
    \/ ReEvaluate
    \/ EndReEvaluate

Spec == Init /\ [][Next]_vars

\* the wall clock advances and the timer thread of the Timeout block runs
LiveSpec == Spec /\ WF_vars(Tick) /\ WF_vars(FitTimeout)

----------------------------------------------------------------------------
(* Observations used by the properties *)

TaskIds == 1..NumTasks

\* this invocation recorded an event of the kind for task t
Did(kind, t) == \E e \in events : e[1] = kind /\ e[2] = t

\* the kinds of event that leave something in the output directory
ArtifactKinds == {"write", "line", "mkdir", "collision", "evaluate"}

WroteArtifact(t) == \E e \in events : e[1] \in ArtifactKinds /\ e[2] = t

IsPrefix(p, q) == Len(p) <= Len(q) /\ SubSeq(q, 1, Len(p)) = p

\* the per-dataset output directory of task t under the output root
OutputDir(t) == Resolve(out_dir \o <<"/", DatasetName(t)>>)

\* files and directories below directory d that were not there initially
NewBelow(d) == { f \in (files \ LeftoverFiles) \cup (dirs \ (BaseDirs \cup LeftoverDirs)) :
                   IsPrefix(d, f) /\ f # d }

\* the positions of run_task after the with block
PostFit == Timed \ {"fit"}

\* the positions inside run_task
InRunTask == {"Loading", "Imputing", "Sizing", "BoundedFitting"} \cup Timed

----------------------------------------------------------------------------
(* Properties *)

C2_OutDirIsCheckedDir ==
    pc \in InRunTask =>
        /\ Resolve(rt_out_dir) = Resolve(dataset_dir)
        /\ Resolve(rt_out_dir) \in dirs

\* C3: with an explicit task_ids subset, only identifiers of the subset
\* are fetched, directory-checked, run or fitted, and no directory or
\* file appears for a dataset that only unselected tasks use.
C3_SubsetFilter ==
    IF task_ids = None THEN TRUE
    ELSE /\ \A e \in events : e[2] \in Val(task_ids)
         /\ \A t \in TaskIds \ Val(task_ids) :
               (\A u \in Val(task_ids) : DatasetName(u) # DatasetName(t)) =>
                   /\ Resolve(DatasetDir(t)) \notin dirs
                   /\ OutputDir(t) \notin dirs \ LeftoverDirs
                   /\ NewBelow(OutputDir(t)) = {}

\* suite {1, 2, 3} with subset {1}: the invocation has returned, task 1
\* was fetched and fitted
C3_Witness ==
    /\ task_ids = Some({1})
    /\ pc = "returned"
    /\ Did("get_task", 1)
    /\ Did("fit", 1)

\* the bounded fit of task t ended with an exception of the fit itself
FitFailed(t) == <<"error", t, "fit", -1>> \in events

\* C4: a bounded fit ends in at most one of Completed, TimedOut, Failed:
\* no task of an invocation has two of the three recorded, and a task
\* whose fit timed out never has elapsed_time recorded or Recording
\* entered.
C4_ExactlyOneOutcome ==
    \A t \in TaskIds :
        /\ ~(Did("completed", t) /\ Did("timeout", t))
        /\ ~(Did("completed", t) /\ FitFailed(t))
        /\ ~(Did("timeout", t) /\ FitFailed(t))
        /\ Did("timeout", t) =>
              /\ ~WroteArtifact(t)
              /\ ~(pc \in PostFit /\ Task = t)
        /\ (pc \in PostFit /\ Task = t) => (Did("completed", t) /\ outcome = "Completed")

\* in one invocation the fit of one task timed out and the fit of
\* another completed
C4_Witness ==
    \E t, u \in TaskIds :
        /\ Did("timeout", t)
        /\ Did("completed", u)
        /\ pc = "returned"

\* C5: when the fit of a task times out, run_task writes no artifact for
\* it (no file, no run{i} directory), returns normally (no exception, the
\* loop is past the task) and run_tests goes on with the next task.
C5_TimeoutSkipsTask ==
    \A t \in TaskIds :
        Did("timeout", t) =>
            /\ ~WroteArtifact(t)
            /\ NewBelow(OutputDir(t)) = {}
            /\ idx > t
            /\ exc # "TimeoutException"

\* the fit of task 1 timed out and run_tests went on to fit task 2
C5_Witness ==
    /\ Did("timeout", 1)
    /\ Did("fit", 2)
    /\ files = {}

\* C6: when clf.fit raises an error of its own, the outcome is Failed:
\* that error leaves run_task (and run_tests) unchanged, no timeout is
\* reported for the task and no artifact is written for it.
C6_FitErrorPropagates ==
    outcome = "Failed" =>
        /\ pc = "raised"
        /\ exc = "FitError"
        /\ FitFailed(Task)
        /\ ~Did("timeout", Task)
        /\ ~Did("completed", Task)
        /\ ~WroteArtifact(Task)
        /\ NewBelow(OutputDir(Task)) = {}

\* after task 1 completed and was recorded, the fit of task 2 raised
C6_Witness ==
    /\ outcome = "Failed"
    /\ pc = "raised"
    /\ idx = 2
    /\ Did("completed", 1)
    /\ WroteArtifact(1)

\* task_timeout is set and that many clock ticks have passed since
\* start_time
TaskDeadlinePassed == task_timeout # None /\ elapsed >= Val(task_timeout)

\* C7: with a deadline set, a fit that never returns eventually yields
\* TimedOut; with no deadline (None) the outcome is never TimedOut; and a
\* fit that returns before its deadline yields Completed.
C7_BoundedResponse ==
    /\ [](task_timeout = None => outcome # "TimedOut")
    /\ ((pc = "fit" /\ fit_kind = "hangs" /\ task_timeout # None) ~> (outcome = "TimedOut"))
    /\ [][(pc = "fit" /\ pc' # "fit" /\ fit_kind = "returns" /\ ~TaskDeadlinePassed)
            => (outcome' = "Completed" /\ pc' = "Recording")]_vars

\* a fit that never returns was ended by the deadline, and run_tests has
\* gone on
C7_Witness ==
    /\ fit_kind = "hangs"
    /\ outcome = "TimedOut"
    /\ task_timeout # None
    /\ pc = "loop"

\* C8 (as stated): task_timeout wraps the whole of run_task: once it has
\* expired in a stage after the fit (Recording, ReEvaluating), no further
\* stage of the task runs, the task is aborted and the loop goes on.
C8_TaskTimeoutWrapsAllStages ==
    [][(pc \in PostFit /\ TaskDeadlinePassed)
         => (pc' = "loop" /\ idx' = idx + 1 /\ files' = files /\ dirs' = dirs)]_vars

\* C8 (amended): task_timeout bounds the call of clf.fit only.  A timeout
\* is signalled only while the fit is running and after task_timeout has
\* expired; it aborts the task (nothing is written, the loop goes on with
\* the next task).  After a completed fit the expiry of task_timeout
\* aborts nothing: the stages after it leave the task only by finishing
\* the re-evaluation loop or by an exception of their own.
C8_TaskTimeoutBoundsFitOnly ==
    [][/\ (outcome' = "TimedOut" /\ outcome # "TimedOut") =>
             /\ pc = "fit"
             /\ TaskDeadlinePassed
             /\ pc' = "loop"
             /\ idx' = idx + 1
             /\ files' = files
             /\ dirs' = dirs
       /\ pc \in PostFit =>
             /\ outcome' = outcome
             /\ pc' = "loop" => (pc = "ReEvaluating" /\ ri >= Len(Top(BestPipelines)))
             /\ pc' = "raised" => exc' # "TimeoutException"]_vars

\* task_timeout has expired after a completed fit, and the task has gone
\* on through Recording to the re-evaluation of its candidates
C8_Witness ==
    /\ pc = "ReEvaluating"
    /\ ri >= 1
    /\ outcome = "Completed"
    /\ TaskDeadlinePassed

\* C9 (as stated): the deadline enforced around clf.fit is the option
\* timeout, independently of task_timeout: with timeout unset and
\* task_timeout set the fit is not interrupted, and with timeout set and
\* task_timeout unset a fit that exceeded timeout has yielded TimedOut.
C9_DeadlineIsTimeout ==
    /\ (timeout = None /\ task_timeout # None) => outcome # "TimedOut"
    /\ (timeout # None /\ task_timeout = None /\ outcome # "none"
        /\ fit_kind = "returns" /\ elapsed > Val(timeout)) => outcome = "TimedOut"

\* C9 (amended): the deadline enforced around clf.fit is the option
\* task_timeout, independently of timeout: a fit yields TimedOut only
\* when task_timeout is set and has expired, whatever timeout is (with
\* task_timeout unset and timeout set the fit is never interrupted by
\* the Timeout block); timeout is only handed to the evaluator and the
\* classifier.
C9_DeadlineIsTaskTimeout ==
    /\ outcome = "TimedOut" => (task_timeout # None /\ elapsed >= Val(task_timeout))
    /\ (task_timeout = None /\ timeout # None) => outcome # "TimedOut"
    /\ pc \in {"BoundedFitting"} \cup Timed => clf_timeout = timeout

\* with task_timeout set and timeout unset, a fit was interrupted
C9_Witness ==
    /\ timeout = None
    /\ task_timeout # None
    /\ outcome = "TimedOut"
    /\ clf_timeout = None

\* C10: a candidate whose sub-directory run{i} already exists is skipped:
\* evaluate_pipeline is not called for it and nothing is written into
\* that directory.
C10_ExistingRunDirSkipped ==
    \A e \in events :
        e[1] = "collision" => <<"evaluate", e[2], e[3], e[4]>> \notin events

----------------------------------------------------------------------------
(* _heuristic_sample_size *)

\* run_tests is not running: the helper functions are called on their own
NoHarness ==
    /\ task_ids = None
    /\ out_dir = <<>>
    /\ timeout = None
    /\ task_timeout = None
    /\ dirs = BaseDirs
    /\ files = {}
    /\ run = 1
    /\ prev = "none"
    /\ pc = "loop"
    /\ idx = 1
    /\ dataset_dir = <<>>
    /\ rt_out_dir = <<>>
    /\ clf_timeout = None
    /\ fit_kind = "none"
    /\ elapsed = 0
    /\ outcome = "none"
    /\ k = 0
    /\ ri = 0
    /\ exc = "none"
    /\ events = {}

\* the row and column counts the function is called with: the values
\* around its thresholds and the shapes (900, 20), (1500, 10), (50000, 3),
\* (50000, 50)
Around(bases) == { b + d : b \in bases, d \in (0 - Spread)..Spread } \cap Nat
RowInputs == Around({1, 900, 1000, 1500, 5000, 10000, 20000, 50000})
ColInputs == Around({1, 10, 20, 50}) \cup {3}

\* mutant of HeuristicSampleSize: `size <= 10000`
HeuristicSampleSizeLe(n, m) ==
    LET size == n * m
    IN  IF size <= 10000 THEN 100
        ELSE IF n < 1000 THEN 50
        ELSE IF n < 5000 THEN 25
        ELSE IF n < 10000 THEN 10
        ELSE IF n < 20000 THEN 5
        ELSE IF m < 10 THEN 2
        ELSE 1

\* mutant of HeuristicSampleSize: the last two results exchanged
HeuristicSampleSizeSwapped(n, m) ==
    LET size == n * m
    IN  IF size < 10000 THEN 100
        ELSE IF n < 1000 THEN 50
        ELSE IF n < 5000 THEN 25
        ELSE IF n < 10000 THEN 10
        ELSE IF n < 20000 THEN 5
        ELSE IF m < 10 THEN 1
        ELSE 2

\* _heuristic_sample_size(n_rows, n_cols), the fraction in hundredths
HeuristicSampleSize(n, m) ==
    LET size == n * m
    IN  IF size < 10000 THEN 100
        ELSE IF n < 1000 THEN 50
        ELSE IF n < 5000 THEN 25
        ELSE IF n < 10000 THEN 10
        ELSE IF n < 20000 THEN 5
        ELSE IF m < 10 THEN 2
        ELSE 1

SampleInit == NoHarness /\ NoSizing /\ NoImputing /\ NoPlotting

\* sample_size = _heuristic_sample_size(X.shape[0], X.shape[1]); a first
\* call and a second one, whose results are compared
CallSampleSize ==
    /\ prev_call = None
    /\ \E n \in RowInputs, m \in ColInputs :
          /\ n_rows' = n
          /\ n_cols' = m
          /\ sample_size' = Some(HeuristicSampleSize(n, m))
    /\ prev_call' = IF sample_size = None THEN None
                    ELSE Some(<<n_rows, n_cols, Val(sample_size)>>)
    /\ UNCHANGED <<harness, imputing, plotting>>

SampleNext == CallSampleSize

SampleSpec == SampleInit /\ [][SampleNext]_vars

\* C11: the result is the first matching row of the ordered rule
\* n*m < 10000 -> 1.0; n < 1000 -> 0.5; n < 5000 -> 0.25; n < 10000 -> 0.1;
\* n < 20000 -> 0.05; m < 10 -> 0.02; otherwise 0.01; it lies in
\* {1.0, 0.5, 0.25, 0.1, 0.05, 0.02, 0.01}; and (900, 20) gives 0.5,
\* (1500, 10) 0.25, (50000, 3) 0.02, (50000, 50) 0.01.
C11_OrderedRule ==
    sample_size # None =>
        LET n == n_rows
            m == n_cols
            r == Val(sample_size)
            big == n * m >= 10000
        IN  /\ r \in {100, 50, 25, 10, 5, 2, 1}
            /\ n * m < 10000 => r = 100
            /\ (big /\ n < 1000) => r = 50
            /\ (big /\ n >= 1000 /\ n < 5000) => r = 25
            /\ (big /\ n >= 5000 /\ n < 10000) => r = 10
            /\ (big /\ n >= 10000 /\ n < 20000) => r = 5
            /\ (big /\ n >= 20000 /\ m < 10) => r = 2
            /\ (big /\ n >= 20000 /\ m >= 10) => r = 1
            /\ (n = 900 /\ m = 20) => r = 50
            /\ (n = 1500 /\ m = 10) => r = 25
            /\ (n = 50000 /\ m = 3) => r = 2
            /\ (n = 50000 /\ m = 50) => r = 1

\* the function was called on the boundary n*m = 10000 with n = 1000,
\* where the first row just fails and the third decides
C11_Witness ==
    /\ n_rows = 1000
    /\ n_cols = 10
    /\ sample_size = Some(25)

\* C12: the result is monotonic non-increasing in the shape: of two
\* calls, the one with at least as many rows and at least as many
\* columns returns at most the fraction of the other.
C12_Monotonic ==
    prev_call # None =>
        LET p == Val(prev_call)
        IN  (p[1] <= n_rows /\ p[2] <= n_cols) => Val(sample_size) <= p[3]

\* a call on (900, 20) gave 0.5 and the next call, on the larger
\* (50000, 50), gave 0.01
C12_Witness ==
    /\ prev_call = Some(<<900, 20, 50>>)
    /\ n_rows = 50000
    /\ n_cols = 50
    /\ sample_size = Some(1)


\* ---------------------------------------------------------------------
\* _conditional_imput: the imputer chosen from the categorical mask

MaxCols == 6

\* the categorical masks: one boolean per column of X
Masks == UNION { [1..n -> BOOLEAN] : n \in 0..MaxCols }

\* [i for i, val in enumerate(mask) if cond(val)]: the 0-based positions,
\* in the order of enumeration
RECURSIVE Positions(_, _, _)
Positions(mask, want, i) ==
    IF i >= Len(mask) THEN <<>>
    ELSE (IF mask[i + 1] = want THEN <<i>> ELSE <<>>) \o Positions(mask, want, i + 1)

\* the transformers with the two strategies exchanged
ConditionalImputSwapped(mask) ==
    LET categorical_id == Positions(mask, TRUE, 0)
        numerical_id == Positions(mask, FALSE, 0)
    IN << <<"mean_imputer", "mean", categorical_id>>,
          <<"median_imputer", "median", numerical_id>> >>

\* the transformers of the ColumnTransformer: name, strategy, columns
ConditionalImput(mask) ==
    LET categorical_id == Positions(mask, TRUE, 0)
        numerical_id == Positions(mask, FALSE, 0)
    IN << <<"mean_imputer", "mean", numerical_id>>,
          <<"median_imputer", "median", categorical_id>> >>

ImputInit == NoHarness /\ NoSizing /\ NoImputing /\ NoPlotting

CallConditionalImput ==
    /\ \E mask \in Masks :
          /\ categorical' = mask
          /\ imputer' = Some(ConditionalImput(mask))
    /\ UNCHANGED <<harness, sizing, plotting>>

ImputNext == CallConditionalImput
ImputSpec == ImputInit /\ [][ImputNext]_vars

Range(seq) == { seq[i] : i \in DOMAIN seq }
Ascending(seq) == \A i, j \in DOMAIN seq : i < j => seq[i] < seq[j]

\* the fill strategies a ColumnTransformer applies to column i
StrategiesOf(transformers, i) ==
    { transformers[t][2] : t \in { u \in DOMAIN transformers : i \in Range(transformers[u][3]) } }

\* C13: the mask partitions the columns 0..len-1 into two disjoint,
\* exhaustive, ascending lists, categorical where the mask is true and
\* numerical where it is false; mean is bound to the numerical list and
\* median to the categorical one; [True, False, True] gives numerical
\* [1] and categorical [0, 2]
C13_Partition ==
    imputer # None =>
        LET t == Val(imputer)
            mean == { u \in DOMAIN t : t[u][2] = "mean" }
            median == { u \in DOMAIN t : t[u][2] = "median" }
            cols == 0..(Len(categorical) - 1)
        IN /\ Cardinality(mean) = 1 /\ Cardinality(median) = 1
           /\ Len(t) = 2
           /\ LET numerical_id == t[CHOOSE u \in mean : TRUE][3]
                  categorical_id == t[CHOOSE u \in median : TRUE][3]
              IN /\ Range(numerical_id) \cap Range(categorical_id) = {}
                 /\ Range(numerical_id) \cup Range(categorical_id) = cols
                 /\ Ascending(numerical_id) /\ Ascending(categorical_id)
                 /\ Range(categorical_id) = { i \in cols : categorical[i + 1] }
                 /\ Range(numerical_id) = { i \in cols : ~categorical[i + 1] }
                 /\ categorical = <<TRUE, FALSE, TRUE>> =>
                        numerical_id = <<1>> /\ categorical_id = <<0, 2>>
           /\ \A i \in cols : StrategiesOf(t, i) =
                  (IF categorical[i + 1] THEN {"median"} ELSE {"mean"})

C13_Witness ==
    /\ categorical = <<TRUE, FALSE, TRUE>>
    /\ imputer = Some(<< <<"mean_imputer", "mean", <<1>> >>,
                         <<"median_imputer", "median", <<0, 2>> >> >>)


\* ---------------------------------------------------------------------
\* export_plot: the series drawn from the logbook of an estimator

MaxGens == 3

\* test scores in hundredths: exactly 0.0 and a non-zero one
Scores == {0, 50}

\* What select() hands back is decided by the class of estimator.logbook,
\* which export_plot does not fix: a Python list (the Logbook whose
\* chapters[..].select(..) this is returns one) or a numpy array.
SelectKinds == {"list", "ndarray"}

\* a logbook: the kind of its select() and, per generation, the record
\* <<test_score max, test_score avg>>
Logbooks ==
    { <<kind, gens>> : kind \in SelectKinds,
                       gens \in UNION { [1..n -> Scores \X Scores] : n \in 0..MaxGens } }

\* logbook.chapters["test_score"].select(name): column 1 is max, 2 is avg
Select(lb, col) == <<lb[1], [g \in DOMAIN lb[2] |-> lb[2][g][col]]>>

\* selected == 0.0: element by element on an ndarray; on a list the one
\* boolean False, a list never being equal to a float
EqualsZero(selected) ==
    IF selected[1] = "ndarray"
    THEN <<"ndarray", [g \in DOMAIN selected[2] |-> selected[2][g] = 0]>>
    ELSE <<"bool", FALSE>>

\* np.all(x)
NpAll(x) == IF x[1] = "ndarray" THEN \A g \in DOMAIN x[2] : x[2][g] ELSE x[2]

\* the labels of the lines export_plot draws, in the order drawn
ExportPlot(lb) ==
    LET test_max == Select(lb, 1)
        test_avg == Select(lb, 2)
        test_all_zero == NpAll(EqualsZero(test_max)) /\ NpAll(EqualsZero(test_avg))
        line1 == <<"Maximum Score">>
        line2 == <<"Average Score">>
    IN IF test_all_zero THEN line1 \o line2
       ELSE line1 \o line2 \o <<"Maximum Test score">> \o <<"Average Test score">>

PlotInit == NoHarness /\ NoSizing /\ NoImputing /\ NoPlotting

CallExportPlot ==
    /\ \E lb \in Logbooks :
          /\ logbook' = lb
          /\ lines' = Some(ExportPlot(lb))
    /\ UNCHANGED <<harness, sizing, imputing>>

PlotNext == CallExportPlot
PlotSpec == PlotInit /\ [][PlotNext]_vars

TrainingSeries == <<"Maximum Score", "Average Score">>
TestSeries == <<"Maximum Test score", "Average Test score">>
SomeTestScoreNonZero ==
    \E g \in DOMAIN logbook[2] : logbook[2][g][1] # 0 \/ logbook[2][g][2] # 0

\* C14: the two training series are drawn for every history, the two
\* test series if and only if some test-score sample is non-zero; a
\* history whose test scores are all 0.0 gives two series, not four
C14_TestSeriesIffNonZero ==
    lines # None =>
        /\ SubSeq(Val(lines), 1, 2) = TrainingSeries
        /\ IF SomeTestScoreNonZero
           THEN Val(lines) = TrainingSeries \o TestSeries
           ELSE Val(lines) = TrainingSeries

\* the training series are always drawn, and the test series are left
\* out only for an all-zero history
C14_TrainingAlwaysTestIfNonZero ==
    lines # None =>
        /\ SubSeq(Val(lines), 1, 2) = TrainingSeries
        /\ Val(lines) \in {TrainingSeries, TrainingSeries \o TestSeries}
        /\ SomeTestScoreNonZero => Val(lines) = TrainingSeries \o TestSeries

\* an all-zero history of which four series are drawn
C14_AllZeroDrawsFour ==
    /\ lines = Some(TrainingSeries \o TestSeries)
    /\ logbook = <<"list", << <<0, 0>>, <<0, 0>> >> >>


\* ---------------------------------------------------------------------
\* run_tests / run_task: errors, order of the stages, candidates, markers

\* the exceptions a handler of the harness turns into a skip
Recovered == {"TimeoutException", "FileExistsError"}

\* the events a step adds
NewEvents == events' \ events

\* C15: only the directory collision and the fit timeout are recovered
\* locally.  Every other error of a stage (dataset access, imputation,
\* sizing, the fit, recording, a directory that cannot be created) leaves
\* run_tests as the exception it is, and after it nothing of the task is
\* executed: the invocation is over.  A timeout and a collision of the
\* dataset directory make the loop go on with the next task.
C15_OnlyCollisionAndTimeoutRecovered ==
    [][ /\ pc = "raised" => (pc' = "loop" /\ run' = run + 1 /\ events' = {})
        /\ (\E e \in NewEvents : e[1] = "error") => pc' = "raised"
        /\ (outcome' = "Failed" /\ outcome # "Failed") => pc' = "raised"
        /\ (pc' = "raised" /\ pc # "raised") => exc' \notin Recovered \cup {"none"}
        /\ pc' # "raised" => exc' = "none"
        /\ (\E e \in NewEvents : e[1] = "timeout") =>
               (pc' = "loop" /\ idx' = idx + 1 /\ run' = run)
        /\ (pc = "check" /\ Mkdir(dataset_dir) = {"FileExistsError"}) =>
               (pc' = "loop" /\ idx' = idx + 1 /\ run' = run /\ dirs' = dirs)
      ]_vars

\* the fit of task 1 timed out and the loop went on; task 2 failed in
\* Sizing, the error left run_tests and no fit of task 2 was started
C15_Witness ==
    /\ pc = "raised"
    /\ exc = "ValueError"
    /\ Did("timeout", 1)
    /\ <<"error", 2, "Sizing", -1>> \in events
    /\ ~Did("fit", 2)
    /\ ~WroteArtifact(2)


\* the positions of run_task in the order of its statements
StageOrder == <<"Loading", "Imputing", "Sizing", "BoundedFitting", "fit", "Recording",
                "logbook", "plot", "fitness", "pickle", "ReEvaluating">>

\* the files Recording writes whatever the number of candidates
RecordingFiles == {"time.txt", "logbook.txt", "result.png", "ind-fitness.txt"}

Wrote(t, name) == \E e \in events : e[1] = "write" /\ e[2] = t /\ e[3] = name

\* the events of the re-evaluation loop
RunKinds == {"mkdir", "collision", "evaluate"}

\* the place of position p in StageOrder
StageIndex(p) == CHOOSE j \in DOMAIN StageOrder : StageOrder[j] = p

\* the positions at which an event of the kind is recorded
StagesOf(kind) ==
    CASE kind = "get_data" -> {"Loading"}
      [] kind = "impute" -> {"Imputing"}
      [] kind = "size" -> {"Sizing"}
      [] kind = "fit" -> {"BoundedFitting"}
      [] kind \in {"completed", "timeout"} -> {"fit"}
      [] kind \in {"write", "line"} -> {"Recording", "logbook", "plot", "fitness", "pickle"}
      [] kind \in RunKinds -> {"ReEvaluating"}
      [] kind = "error" -> InRunTask
      [] OTHER -> {"loop", "check"}

\* C16: within one task the stages run in the order Loading, Imputing,
\* Sizing, BoundedFitting, Recording, ReEvaluating.  Every step inside
\* run_task stays at its position or goes to the next one, run_task is
\* entered at Loading and left to the loop or with an exception; each
\* call is made at its own stage, so the fit is started only after
\* imputation and sizing; an artifact is written and the filesystem
\* below the output directory changed only after the fit of the task has
\* completed; a run{i} directory is created and a candidate re-evaluated
\* only at ReEvaluating, after Recording has written all its files.
C16_StagesInOrder ==
    [][ /\ (pc \in InRunTask /\ pc' \in InRunTask /\ pc' # pc) =>
               StageIndex(pc') = StageIndex(pc) + 1
        /\ (pc \notin InRunTask /\ pc' \in InRunTask) => (pc = "check" /\ pc' = "Loading")
        /\ (pc \in InRunTask /\ pc' \notin InRunTask) => pc' \in {"loop", "raised"}
        /\ pc' = "fit" => (Did("get_data", Task) /\ Did("impute", Task) /\ Did("size", Task))'
        /\ \A e \in NewEvents :
              /\ pc \in StagesOf(e[1])
              /\ e[2] = Task
              /\ e[1] \in ArtifactKinds => Did("completed", e[2]) /\ outcome = "Completed"
              /\ e[1] \in RunKinds => \A n \in RecordingFiles : Wrote(e[2], n)
              /\ (e[1] \in RunKinds /\ e[4] # -1) =>
                     Wrote(e[2], PickleName(e[4])) /\ Wrote(e[2], GraphName(e[4]))
        /\ files' # files => (pc \in PostFit /\ outcome = "Completed")
        /\ dirs' # dirs => pc \in {"check", "ReEvaluating"}
      ]_vars

\* task 1 went through all stages: its data were loaded, imputed and
\* sized, the fit completed, the files were recorded and the best
\* candidate was re-evaluated in run0
C16_Witness ==
    /\ pc = "returned"
    /\ Did("get_data", 1) /\ Did("impute", 1) /\ Did("size", 1) /\ Did("completed", 1)
    /\ \A n \in RecordingFiles : Wrote(1, n)
    /\ <<"evaluate", 1, "run0", 0>> \in events
    /\ Resolve(Join(rt_out_dir, "time.txt")) \in files


\* the candidates for which task t has an event of one of the kinds
Candidates(t, kinds) == { e[4] : e \in { f \in events : f[2] = t /\ f[1] \in kinds /\ f[4] # -1 } }

\* the names the formats give for the indices of a list of candidates
GraphNames == { GraphName(i) : i \in 0..MaxK }
PickleNames == { PickleName(i) : i \in 0..MaxK }
RunNames == { RunName(i) : i \in 0..MaxK }

\* the candidates of the events of the kinds a step adds, those of the
\* files and directories of the names only
NewCandidates(kinds, names) ==
    { e[4] : e \in { f \in NewEvents : f[1] \in kinds /\ f[4] # -1 /\ f[3] \in names } }

\* the ranks of the candidates that are recorded and re-evaluated
TopRanks == 0..(Min(TopN, k) - 1)

\* C17: of k ranked candidates exactly min(5, k) are recorded and
\* re-evaluated, the ranks 0..min(5,k)-1 in increasing order; the index
\* in graph{i}.png, pipeline{i}.pickle and run{i} is the rank of the
\* candidate the file or directory is about, the ind-fitness lines are
\* those of the same candidates; no candidate of rank >= 5 is ever
\* serialized or re-evaluated.
C17_TopFiveInRankOrder ==
    [][ /\ \A e \in NewEvents : e[4] # -1 =>
              /\ e[4] \in 0..(TopN - 1)
              /\ e[4] \in TopRanks
              /\ e[3] \in {"ind-fitness.txt", GraphName(e[4]), PickleName(e[4]), RunName(e[4])}
        /\ (pc = "fitness" /\ pc' = "pickle") =>
              /\ NewCandidates({"line"}, {"ind-fitness.txt"}) = TopRanks
              /\ NewCandidates({"write"}, GraphNames) = TopRanks
        /\ (pc = "pickle" /\ pc' = "ReEvaluating") =>
              /\ NewCandidates({"write"}, PickleNames) = TopRanks
              /\ { i \in TopRanks : Resolve(Join(rt_out_dir, PickleName(i))) \in files' } = TopRanks
              /\ ri' = 0
        /\ (pc = "ReEvaluating" /\ ri' # ri) =>
              /\ ri' = ri + 1
              /\ ri \in TopRanks
              /\ NewCandidates({"evaluate"}, RunNames) = {ri}
              /\ Resolve(PipeDir(ri)) \in dirs'
        /\ (pc = "ReEvaluating" /\ pc' = "raised") => (ri' = ri /\ ri \in TopRanks)
        /\ (pc = "ReEvaluating" /\ pc' = "loop") => ri = Min(TopN, k)
        /\ pc # "ReEvaluating" => NewCandidates({"evaluate"}, RunNames) = {}
      ]_vars

\* the Evolver returned six candidates; five were recorded and all five
\* re-evaluated, the last of them rank 4 in run4
C17_Witness ==
    /\ pc = "ReEvaluating"
    /\ k = 6
    /\ ri = 5
    /\ Candidates(Task, {"evaluate"}) = 0..4
    /\ <<"write", Task, "pipeline4.pickle", 4>> \in events
    /\ <<"evaluate", Task, "run4", 4>> \in events


\* the suite tasks other than t whose dataset has the name of t's
SameDataset(t) == { u \in TaskIds \ {t} : DatasetName(u) = DatasetName(t) }

\* this step invokes run_task for task t
InvokesRunTask(t) == ~Did("run_task", t) /\ Did("run_task", t)'

\* C18: resumability is per dataset name, not per task.  run_task is
\* invoked for a task only when no directory of its dataset's name
\* exists, which the invocation then creates and nothing removes; so of
\* the suite tasks sharing a dataset name at most the first one
\* encountered is ever run, within an invocation and across invocations,
\* and a later one is skipped at its directory check without a fit.
C18_DatasetGranularity ==
    [][ /\ dirs \subseteq dirs'
        /\ \A t \in TaskIds :
              /\ InvokesRunTask(t) =>
                    /\ Resolve(DatasetDir(t)) \notin dirs
                    /\ Resolve(DatasetDir(t)) \in dirs'
                    /\ \A u \in SameDataset(t) : ~Did("dir_check", u) /\ ~Did("run_task", u)
              /\ (pc = "check" /\ idx = t /\ \E u \in SameDataset(t) : Did("run_task", u)) =>
                    /\ pc' = "loop" /\ idx' = idx + 1
                    /\ ~Did("run_task", t)' /\ ~Did("fit", t)'
                    /\ fs' = fs
      ]_vars

\* tasks 1 and 3 use dataset 'a': task 1 was run, task 3 was stopped at
\* its directory check, and the invocation returned
C18_Witness ==
    /\ pc = "returned"
    /\ DatasetName(1) = DatasetName(3)
    /\ Did("run_task", 1)
    /\ Did("fit", 1)
    /\ Did("dir_check", 3)
    /\ ~Did("run_task", 3)


\* the processing of task t ended without completing: its fit timed out,
\* or an error left run_task after the dataset directory was created
Unfinished(t) ==
    /\ Did("run_task", t)
    /\ \/ Did("timeout", t)
       \/ pc = "raised" /\ idx = t

\* the directory whose existence makes run_tests skip task t
Marker(t) == Resolve(DatasetDir(t))

\* C19: the dataset directory that serves as the resumability marker is
\* created before the fit starts and is never removed; so a task whose
\* fit timed out or whose processing failed after the directory was
\* created is never processed again, by this or any later invocation on
\* the same filesystem, whatever artifacts it has.
C19_UnfinishedNeverRetried ==
    /\ [](\A t \in TaskIds : (Did("run_task", t) \/ Did("fit", t)) => Marker(t) \in dirs)
    /\ [][dirs \subseteq dirs' /\ files \subseteq files']_vars
    /\ \A t \in TaskIds :
          [](Unfinished(t) => [](Marker(t) \in dirs /\ (idx = t => pc \notin InRunTask)))

\* out_dir '' makes run_task write into the marker directory /a: the
\* second invocation skipped task 1 at its directory check although the
\* first, which created /a, left no artifact in it
C19_Witness ==
    /\ run = 2
    /\ out_dir = <<>>
    /\ Did("dir_check", 1)
    /\ ~Did("run_task", 1)
    /\ ~Did("fit", 1)
    /\ Marker(1) \in dirs
    /\ NewBelow(Marker(1)) = {}

====
